---- MODULE Spec2Model ----
(***************************************************************************)
(* Model of keras_cv/models/feature_extractor/CoCa/coca_model.py: the CoCa *)
(* task model.  Tensors are modelled by their shapes (sequences of         *)
(* naturals); the collaborating layers (patch embedder, encoder and        *)
(* decoder stacks, rotary embedding, attention poolers) are modelled by    *)
(* the shapes they are built with and by the order in which they are       *)
(* applied.                                                                *)
(***************************************************************************)
EXTENDS Integers, Sequences, FiniteSets, TLC

\* ------------------------------------------------------------------ bounds
MaxBatch == 2
MaxSeqLen == 2
MaxBuilds == 2

\* ------------------------------------------------------- hyperparameters
\* The sixteen constructor parameters of CoCa.__init__.
InitParams ==
    {"img_patch_size", "encoder_depth", "encoder_heads",
     "encoder_intermediate_dim", "encoder_width", "unimodal_decoder_depth",
     "multimodal_decoder_depth", "decoder_intermediate_dim",
     "unimodal_decoder_heads", "multimodal_decoder_heads",
     "contrastive_query_length", "captioning_query_length",
     "contrastive_attn_heads", "captioning_attn_heads",
     "contrastive_loss_weight", "captioning_loss_weight"}

\* Keyword arguments the base class takes through **kwargs.
BaseKeys == {"name"}

\* Default values of the constructor parameters.  The two loss weights are
\* 0.5 in the source; they are kept here in tenths (5).
Defaults ==
    [img_patch_size |-> 18,
     encoder_depth |-> 40,
     encoder_heads |-> 16,
     encoder_intermediate_dim |-> 6144,
     encoder_width |-> 1408,
     unimodal_decoder_depth |-> 18,
     multimodal_decoder_depth |-> 18,
     decoder_intermediate_dim |-> 5632,
     unimodal_decoder_heads |-> 16,
     multimodal_decoder_heads |-> 16,
     contrastive_query_length |-> 1,
     captioning_query_length |-> 256,
     contrastive_attn_heads |-> 16,
     captioning_attn_heads |-> 16,
     contrastive_loss_weight |-> 5,
     captioning_loss_weight |-> 5]

\* The value bound to parameter k: the keyword argument when given, the
\* default otherwise.
Arg(args, k) == IF k \in DOMAIN args THEN args[k] ELSE Defaults[k]

\* InitAttrs with the two encoder dimensions assigned crosswise.
InitAttrsCrossed(args) ==
    [img_patch_size |-> Arg(args, "img_patch_size"),
     encoder_depth |-> Arg(args, "encoder_depth"),
     encoder_heads |-> Arg(args, "encoder_heads"),
     encoder_width |-> Arg(args, "encoder_intermediate_dim"),
     encoder_intermediate_dim |-> Arg(args, "encoder_width"),
     unimodal_decoder_depth |-> Arg(args, "unimodal_decoder_depth"),
     multimodal_decoder_depth |-> Arg(args, "multimodal_decoder_depth"),
     decoder_intermediate_dim |-> Arg(args, "decoder_intermediate_dim"),
     unimodal_decoder_heads |-> Arg(args, "unimodal_decoder_heads"),
     multimodal_decoder_heads |-> Arg(args, "multimodal_decoder_heads"),
     contrastive_query_length |-> Arg(args, "contrastive_query_length"),
     contrastive_attn_heads |-> Arg(args, "contrastive_attn_heads"),
     contrastive_loss_weight |-> Arg(args, "contrastive_loss_weight"),
     captioning_query_length |-> Arg(args, "captioning_query_length"),
     captioning_attn_heads |-> Arg(args, "captioning_attn_heads"),
     captioning_loss_weight |-> Arg(args, "captioning_loss_weight")]

\* The attribute assignments of __init__, one per parameter.
InitAttrs(args) ==
    [img_patch_size |-> Arg(args, "img_patch_size"),
     encoder_depth |-> Arg(args, "encoder_depth"),
     encoder_heads |-> Arg(args, "encoder_heads"),
     encoder_width |-> Arg(args, "encoder_width"),
     encoder_intermediate_dim |-> Arg(args, "encoder_intermediate_dim"),
     unimodal_decoder_depth |-> Arg(args, "unimodal_decoder_depth"),
     multimodal_decoder_depth |-> Arg(args, "multimodal_decoder_depth"),
     decoder_intermediate_dim |-> Arg(args, "decoder_intermediate_dim"),
     unimodal_decoder_heads |-> Arg(args, "unimodal_decoder_heads"),
     multimodal_decoder_heads |-> Arg(args, "multimodal_decoder_heads"),
     contrastive_query_length |-> Arg(args, "contrastive_query_length"),
     contrastive_attn_heads |-> Arg(args, "contrastive_attn_heads"),
     contrastive_loss_weight |-> Arg(args, "contrastive_loss_weight"),
     captioning_query_length |-> Arg(args, "captioning_query_length"),
     captioning_attn_heads |-> Arg(args, "captioning_attn_heads"),
     captioning_loss_weight |-> Arg(args, "captioning_loss_weight")]

\* ------------------------------------------------------- sub-components
\* The layers created in __init__ ("Layer Definitions").
Components ==
    {"image_patching", "image_encoder", "text_embedding",
     "unimodal_text_decoder", "multimodal_text_decoder",
     "contrastive_attn_pooling", "captioning_attn_pooling"}

\* A layer that exists but has not been built: no build shapes recorded.
Unbuilt == <<>>

\* "self.cls_token = None" and its two siblings.
None == [alloc |-> FALSE, shape |-> <<>>, name |-> "", trainable |-> FALSE]

\* self.add_weight(shape=..., name=..., trainable=...)
add_weight(shape, name, trainable) ==
    [alloc |-> TRUE, shape |-> shape, name |-> name, trainable |-> trainable]

\* The object __init__ leaves behind.
CoCaInit(args, kwargs) ==
    [hp |-> InitAttrs(args),
     kwargs |-> kwargs,
     comp |-> [c \in Components |-> Unbuilt],
     cls_token |-> None,
     contrastive_query |-> None,
     captioning_query |-> None]

\* --------------------------------------------------------------- shapes
\* shape[i] of the source, 0-based there and 1-based here; -1 stands for
\* the IndexError an out-of-range index raises.
Index(shape, i) == IF i + 1 <= Len(shape) THEN shape[i + 1] ELSE -1

\* ------------------------------------------------------------------ build
\* Validate with the batch sizes compared before the ranks are checked.
ValidateBatchFirst(input_shape) ==
    IF Len(input_shape) < 2 THEN "ShapeCountError"
    ELSE LET images_shape == input_shape[1]
             text_shape == input_shape[2]
         IN  IF Index(images_shape, 0) = -1 \/ Index(text_shape, 0) = -1
             THEN "IndexError"
             ELSE IF Index(images_shape, 0) # Index(text_shape, 0)
                  THEN "BatchMismatchError"
             ELSE IF Len(images_shape) # 4 THEN "ShapeRankError(image)"
             ELSE IF Len(text_shape) # 2 THEN "ShapeRankError(text)"
             ELSE "ok"

\* The "Validate Input Shape" part of build.  Every failure is a ValueError
\* in the source; the result names the raise site by the error kind of the
\* specification's taxonomy: the shape count (l.140), the image rank
\* (l.147), the text rank (l.150), the batch sizes (l.156).
Validate(input_shape) ==
    IF Len(input_shape) < 2 THEN "ShapeCountError"
    ELSE LET images_shape == input_shape[1]
             text_shape == input_shape[2]
         IN  IF Len(images_shape) # 4 THEN "ShapeRankError(image)"
             ELSE IF Len(text_shape) # 2 THEN "ShapeRankError(text)"
             ELSE IF Index(text_shape, 1) = -1 THEN "IndexError"
             ELSE IF Index(images_shape, 0) = -1 \/ Index(text_shape, 0) = -1
                  THEN "IndexError"
             ELSE IF Index(images_shape, 0) # Index(text_shape, 0)
                  THEN "BatchMismatchError"
             ELSE "ok"

\* num_patches of build, the "+ 1" for the class token included.
NumPatches(hp, images_shape) ==
    (Index(images_shape, 1) \div hp.img_patch_size)
        * (Index(images_shape, 2) \div hp.img_patch_size) + 1

\* text_shape_with_cls_token of build.
TextShapeWithClsToken(text_shape) ==
    [i \in 1..Len(text_shape) |->
        IF i = 2 THEN text_shape[i] + 1 ELSE text_shape[i]]

\* The "Build Layers" part of build: the shapes each layer is built with.
BuildLayers(hp, input_shape) ==
    LET images_shape == input_shape[1]
        text_shape == input_shape[2]
        batch_size == Index(images_shape, 0)
        num_patches == NumPatches(hp, images_shape)
        text_shape_with_cls_token == TextShapeWithClsToken(text_shape)
    IN  [image_patching |-> <<images_shape>>,
         image_encoder |-> <<(<<batch_size, hp.encoder_width, num_patches>>)>>,
         text_embedding |-> <<text_shape_with_cls_token>>,
         unimodal_text_decoder |-> <<text_shape_with_cls_token>>,
         contrastive_attn_pooling |->
             <<(<<batch_size, num_patches, hp.encoder_width>>)>>,
         captioning_attn_pooling |->
             <<(<<batch_size, num_patches, hp.encoder_width>>)>>,
         multimodal_text_decoder |->
             <<(<<batch_size, hp.encoder_width, hp.captioning_query_length>>),
               text_shape_with_cls_token>>]

\* BuildWeights with the two query lengths taken for one another.
BuildWeightsSwappedLengths(hp, input_shape) ==
    LET images_shape == input_shape[1]
        text_shape == input_shape[2]
        text_dim == Index(text_shape, 1)
        batch_size == Index(images_shape, 0)
    IN  [cls_token |->
             add_weight(<<batch_size, 1, text_dim>>, "cls_token", TRUE),
         contrastive_query |->
             add_weight(<<batch_size, hp.encoder_width,
                          hp.captioning_query_length>>, "", TRUE),
         captioning_query |->
             add_weight(<<batch_size, hp.encoder_width,
                          hp.contrastive_query_length>>, "", TRUE)]

\* The "Learnable Weights" part of build: the three add_weight calls.
BuildWeights(hp, input_shape) ==
    LET images_shape == input_shape[1]
        text_shape == input_shape[2]
        text_dim == Index(text_shape, 1)
        batch_size == Index(images_shape, 0)
    IN  [cls_token |->
             add_weight(<<batch_size, 1, text_dim>>, "cls_token", TRUE),
         contrastive_query |->
             add_weight(<<batch_size, hp.encoder_width,
                          hp.contrastive_query_length>>, "", TRUE),
         captioning_query |->
             add_weight(<<batch_size, hp.encoder_width,
                          hp.captioning_query_length>>, "", TRUE)]

\* The object once the layers are built and the weights added (l.159-183).
BuiltObject(self, input_shape) ==
    LET w == BuildWeights(self.hp, input_shape)
    IN  [self EXCEPT !.comp = BuildLayers(self.hp, input_shape),
                     !.cls_token = w.cls_token,
                     !.contrastive_query = w.contrastive_query,
                     !.captioning_query = w.captioning_query]

\* BuildOutcome with the patch embedder built ahead of the batch check.
BuildOutcomeEagerPatching(self, input_shape) ==
    LET v == Validate(input_shape)
    IN  IF v = "BatchMismatchError"
        THEN [self |-> [self EXCEPT
                          !.comp["image_patching"] = <<input_shape[1]>>],
              result |-> v, added |-> 0]
        ELSE IF v # "ok"
        THEN [self |-> self, result |-> v, added |-> 0]
        ELSE [self |-> BuiltObject(self, input_shape),
              result |-> "ok", added |-> 3]

\* build(input_shape) on object self: the object afterwards, the outcome and
\* the number of weights added.  A raise leaves the fields as they are.
BuildOutcome(self, input_shape) ==
    LET v == Validate(input_shape)
    IN  IF v # "ok"
        THEN [self |-> self, result |-> v, added |-> 0]
        ELSE [self |-> BuiltObject(self, input_shape),
              result |-> "ok", added |-> 3]

\* ------------------------------------------------------------------ numpy
\* The number of elements of an array of the given shape.
RECURSIVE Size(_)
Size(shape) == IF shape = <<>> THEN 1 ELSE Head(shape) * Size(Tail(shape))

RECURSIVE SumSizes(_)
SumSizes(arrays) ==
    IF arrays = <<>> THEN 0 ELSE Size(Head(arrays)) + SumSizes(Tail(arrays))

RECURSIVE SumAxis(_, _)
SumAxis(arrays, k) ==
    IF arrays = <<>> THEN 0 ELSE Head(arrays)[k] + SumAxis(Tail(arrays), k)

\* An array passed where a sequence of arrays is expected is iterated along
\* its first axis.
Rows(shape) == [i \in 1..Head(shape) |-> Tail(shape)]

\* What numpy makes of an object in the position of the axis argument: None
\* is "flatten first", a weight tensor is no integer.
AsAxis(w) ==
    IF w.alloc THEN [kind |-> "array", value |-> 0]
    ELSE [kind |-> "none", value |-> 0]

DefaultAxis == [kind |-> "int", value |-> 0]

np_ones_like(shape) == shape

\* zeros_like(None) is a zero-dimensional array.
np_zeros_like(w) == IF w.alloc THEN w.shape ELSE <<>>

\* np.concatenate(arrays, axis): the shape of the result, or the error.
np_concatenate(arrays, axis) ==
    IF axis.kind = "array"
    THEN [err |-> "TypeError", shape |-> <<>>]
    ELSE IF Len(arrays) = 0
    THEN [err |-> "ValueError", shape |-> <<>>]
    ELSE IF axis.kind = "none"
    THEN [err |-> "", shape |-> <<SumSizes(arrays)>>]
    ELSE IF \E i \in 1..Len(arrays) : Len(arrays[i]) = 0
    THEN [err |-> "ValueError", shape |-> <<>>]
    ELSE IF \E i \in 1..Len(arrays) : Len(arrays[i]) # Len(arrays[1])
    THEN [err |-> "ValueError", shape |-> <<>>]
    ELSE IF axis.value >= Len(arrays[1])
    THEN [err |-> "ValueError", shape |-> <<>>]
    ELSE IF \E i \in 1..Len(arrays) : \E k \in 1..Len(arrays[1]) :
                k # axis.value + 1 /\ arrays[i][k] # arrays[1][k]
    THEN [err |-> "ValueError", shape |-> <<>>]
    ELSE [err |-> "",
          shape |-> [k \in 1..Len(arrays[1]) |->
                        IF k = axis.value + 1
                        THEN SumAxis(arrays, k) ELSE arrays[1][k]]]

\* x[:, :-1, :], which needs three axes.
DropLast(shape) ==
    IF Len(shape) # 3 THEN [err |-> "IndexError", shape |-> <<>>]
    ELSE [err |-> "",
          shape |-> <<shape[1],
                      IF shape[2] > 0 THEN shape[2] - 1 ELSE 0,
                      shape[3]>>]

\* ------------------------------------------------------------------- call
\* No tensor reached a layer of the text branch.
NoShape == <<>>

\* call(images, texts) on object self, by shapes: the layers applied in
\* order, the auxiliary tensors read, the tensors handed to the text
\* branch, and the outcome.  A pooler handed None for its query is outside
\* this file: pooler_takes_none says whether it returns or raises.
CallOutcome(self, images, texts, pooler_takes_none) ==
    LET image_steps == <<"image_patching", "image_encoder">>
        pooled == image_steps \o <<"captioning_attn_pooling">>
        text_tokens == np_concatenate(Rows(texts), AsAxis(self.cls_token))
        mask == np_concatenate(<<np_ones_like(texts),
                                 np_zeros_like(self.cls_token)>>, DefaultAxis)
        unimodal_out == text_tokens.shape
        trimmed == DropLast(unimodal_out)
        stop(res, steps, rd, tt, mk, tr) ==
            [result |-> res, trace |-> steps, reads |-> rd,
             text_tokens |-> tt, mask |-> mk, trimmed |-> tr]
    IN  IF ~self.captioning_query.alloc /\ ~pooler_takes_none
        THEN stop("CollaboratorError", pooled, {"captioning_query"},
                  NoShape, NoShape, NoShape)
        ELSE IF text_tokens.err # ""
        THEN stop(text_tokens.err, pooled, {"captioning_query", "cls_token"},
                  NoShape, NoShape, NoShape)
        ELSE IF mask.err # ""
        THEN stop(mask.err, pooled, {"captioning_query", "cls_token"},
                  NoShape, NoShape, NoShape)
        ELSE IF trimmed.err # ""
        THEN stop(trimmed.err,
                  pooled \o <<"text_embedding", "unimodal_text_decoder">>,
                  {"captioning_query", "cls_token"},
                  text_tokens.shape, mask.shape, NoShape)
        ELSE stop("ok",
                  pooled \o <<"text_embedding", "unimodal_text_decoder",
                              "multimodal_text_decoder">>,
                  {"captioning_query", "cls_token"},
                  text_tokens.shape, mask.shape, trimmed.shape)

\* ----------------------------------------------------------- configuration
\* super().get_config(): the base class hands back the keyword arguments it
\* was constructed with.
SuperGetConfig(self) == self.kwargs

\* GetConfig with one hyperparameter left out of the update.
GetConfigMissingKey(self) ==
    [img_patch_size |-> self.hp.img_patch_size,
     encoder_depth |-> self.hp.encoder_depth,
     encoder_heads |-> self.hp.encoder_heads,
     encoder_width |-> self.hp.encoder_width,
     encoder_intermediate_dim |-> self.hp.encoder_intermediate_dim,
     unimodal_decoder_depth |-> self.hp.unimodal_decoder_depth,
     multimodal_decoder_depth |-> self.hp.multimodal_decoder_depth,
     decoder_intermediate_dim |-> self.hp.decoder_intermediate_dim,
     unimodal_decoder_heads |-> self.hp.unimodal_decoder_heads,
     multimodal_decoder_heads |-> self.hp.multimodal_decoder_heads,
     contrastive_query_length |-> self.hp.contrastive_query_length,
     contrastive_attn_heads |-> self.hp.contrastive_attn_heads,
     contrastive_loss_weight |-> self.hp.contrastive_loss_weight,
     captioning_query_length |-> self.hp.captioning_query_length,
     captioning_attn_heads |-> self.hp.captioning_attn_heads]
    @@ SuperGetConfig(self)

\* get_config: the base mapping updated with the sixteen hyperparameters.
GetConfig(self) ==
    [img_patch_size |-> self.hp.img_patch_size,
     encoder_depth |-> self.hp.encoder_depth,
     encoder_heads |-> self.hp.encoder_heads,
     encoder_width |-> self.hp.encoder_width,
     encoder_intermediate_dim |-> self.hp.encoder_intermediate_dim,
     unimodal_decoder_depth |-> self.hp.unimodal_decoder_depth,
     multimodal_decoder_depth |-> self.hp.multimodal_decoder_depth,
     decoder_intermediate_dim |-> self.hp.decoder_intermediate_dim,
     unimodal_decoder_heads |-> self.hp.unimodal_decoder_heads,
     multimodal_decoder_heads |-> self.hp.multimodal_decoder_heads,
     contrastive_query_length |-> self.hp.contrastive_query_length,
     contrastive_attn_heads |-> self.hp.contrastive_attn_heads,
     contrastive_loss_weight |-> self.hp.contrastive_loss_weight,
     captioning_query_length |-> self.hp.captioning_query_length,
     captioning_attn_heads |-> self.hp.captioning_attn_heads,
     captioning_loss_weight |-> self.hp.captioning_loss_weight]
    @@ SuperGetConfig(self)

\* A mapping restricted to some of its keys.
Restrict(f, keys) == [k \in DOMAIN f \cap keys |-> f[k]]

\* from_config(cfg): the mapping must carry exactly the constructor's
\* parameters and the base class's keys; the instance is then constructed
\* from it.  made holds the new instance, and nothing on a failure.
FromConfig(cfg) ==
    IF DOMAIN cfg # InitParams \cup BaseKeys
    THEN [result |-> "ConfigError", made |-> <<>>]
    ELSE [result |-> "ok",
          made |-> <<CoCaInit(Restrict(cfg, InitParams),
                              Restrict(cfg, BaseKeys))>>]

\* ------------------------------------------------------------------ inputs
\* Constructor arguments: none (every default), every parameter, a few.
NoArgs == [k \in {} |-> 0]

SmallArgs ==
    [img_patch_size |-> 2,
     encoder_depth |-> 1,
     encoder_heads |-> 2,
     encoder_intermediate_dim |-> 4,
     encoder_width |-> 3,
     unimodal_decoder_depth |-> 1,
     multimodal_decoder_depth |-> 2,
     decoder_intermediate_dim |-> 6,
     unimodal_decoder_heads |-> 1,
     multimodal_decoder_heads |-> 2,
     contrastive_query_length |-> 1,
     captioning_query_length |-> 2,
     contrastive_attn_heads |-> 1,
     captioning_attn_heads |-> 3,
     contrastive_loss_weight |-> 3,
     captioning_loss_weight |-> 7]

FewArgs ==
    [img_patch_size |-> 1,
     encoder_width |-> 17,
     contrastive_query_length |-> 2]

ArgSets == {NoArgs, SmallArgs, FewArgs}

Batches == 1..MaxBatch

ImageShapes == {<<b, 4, 4, 3>> : b \in Batches}

BadImageShapes == {<<1, 4, 4>>, <<>>}

TextShapes == {<<b, s>> : b \in Batches, s \in 1..MaxSeqLen}

BadTextShapes == {<<2>>, <<1, 1, 2>>}

\* The lists of shapes handed to build: none, one, two, three.
InputShapes ==
    {<<>>}
    \cup {<<i>> : i \in ImageShapes}
    \cup {<<i, t>> : i \in ImageShapes \cup BadImageShapes,
                     t \in TextShapes \cup BadTextShapes}
    \cup {<<i, t, <<1>> >> : i \in ImageShapes, t \in TextShapes}

\* The arguments of call, batch-aligned: the texts are token ids, or one
\* feature vector per token.
CallInputs ==
    UNION {{<<(<<b, 4, 4, 3>>), (<<b, s>>)>>, <<(<<b, 4, 4, 3>>), (<<b, s, 2>>)>>} :
              b \in Batches, s \in 1..MaxSeqLen}

\* ------------------------------------------------------------------- state
VARIABLES
    coca,         \* the CoCa object: hp, kwargs, comp, the three tensors
    super_built,  \* super().build(input_shape) has run
    num_weights,  \* the number of add_weight calls made so far
    op,           \* the last operation
    result,       \* its outcome: "ok" or the error raised
    input_shape,  \* the argument of the last build
    images,       \* the arguments of the last call
    texts,
    out,          \* what the last call did
    config,       \* the mapping returned by get_config or given to from_config
    restored      \* the instance the last from_config made

vars == <<coca, super_built, num_weights, op, result, input_shape, images,
          texts, out, config, restored>>

NoCall ==
    [trace |-> <<>>, reads |-> {}, text_tokens |-> NoShape,
     mask |-> NoShape, trimmed |-> NoShape]

NoConfig == [k \in {} |-> 0]

Init ==
    /\ \E args \in ArgSets : coca = CoCaInit(args, [name |-> "coca"])
    /\ super_built = FALSE
    /\ num_weights = 0
    /\ op = "__init__"
    /\ result = "ok"
    /\ input_shape = <<>>
    /\ images = <<>>
    /\ texts = <<>>
    /\ out = NoCall
    /\ config = NoConfig
    /\ restored = <<>>

\* build(input_shape).  The number of completed builds is capped.
Build ==
    \E shapes \in InputShapes :
        LET o == BuildOutcome(coca, shapes)
        IN  /\ num_weights + o.added <= 3 * MaxBuilds
            /\ coca' = o.self
            /\ super_built' = TRUE
            /\ num_weights' = num_weights + o.added
            /\ op' = "build"
            /\ result' = o.result
            /\ input_shape' = shapes
            /\ images' = <<>>
            /\ texts' = <<>>
            /\ out' = NoCall
            /\ config' = NoConfig
            /\ restored' = <<>>

\* call(images, texts).
Call ==
    \E args \in CallInputs, pooler_takes_none \in BOOLEAN :
        LET o == CallOutcome(coca, args[1], args[2], pooler_takes_none)
        IN  /\ op' = "call"
            /\ result' = o.result
            /\ images' = args[1]
            /\ texts' = args[2]
            /\ out' = [trace |-> o.trace, reads |-> o.reads,
                       text_tokens |-> o.text_tokens, mask |-> o.mask,
                       trimmed |-> o.trimmed]
            /\ input_shape' = <<>>
            /\ config' = NoConfig
            /\ restored' = <<>>
            /\ UNCHANGED <<coca, super_built, num_weights>>

\* get_config().
GetConfigCall ==
    /\ op' = "get_config"
    /\ result' = "ok"
    /\ config' = GetConfig(coca)
    /\ input_shape' = <<>>
    /\ images' = <<>>
    /\ texts' = <<>>
    /\ out' = NoCall
    /\ restored' = <<>>
    /\ UNCHANGED <<coca, super_built, num_weights>>

\* The mappings handed to from_config: the object's own configuration, the
\* same with one key left out, the same with one key more.
ConfigInputs(self) ==
    LET cfg == GetConfig(self)
    IN  {cfg}
        \cup {Restrict(cfg, DOMAIN cfg \ {k}) : k \in DOMAIN cfg}
        \cup {cfg @@ [unknown_key |-> 1]}

\* CoCa.from_config(cfg).
FromConfigCall ==
    \E cfg \in ConfigInputs(coca) :
        LET o == FromConfig(cfg)
        IN  /\ op' = "from_config"
            /\ result' = o.result
            /\ config' = cfg
            /\ restored' = o.made
            /\ input_shape' = <<>>
            /\ images' = <<>>
            /\ texts' = <<>>
            /\ out' = NoCall
            /\ UNCHANGED <<coca, super_built, num_weights>>

Next == Build \/ Call \/ GetConfigCall \/ FromConfigCall

Spec == Init /\ [][Next]_vars

\* ------------------------------------------------------------ properties
\* The lifecycle states: unbuilt (no layer built, no tensor allocated) and
\* built (every layer built, every tensor allocated).
IsUnbuilt(self) ==
    /\ \A c \in Components : self.comp[c] = Unbuilt
    /\ ~self.cls_token.alloc
    /\ ~self.contrastive_query.alloc
    /\ ~self.captioning_query.alloc

IsBuilt(self) ==
    /\ \A c \in Components : self.comp[c] # Unbuilt
    /\ self.cls_token.alloc
    /\ self.contrastive_query.alloc
    /\ self.captioning_query.alloc

C2_SecondBuildRejected ==
    [][(IsBuilt(coca) /\ op' = "build")
          => /\ result' = "AlreadyBuiltError"
             /\ coca' = coca
             /\ num_weights' = num_weights]_vars

\* C3: a call on an unbuilt object fails with NotBuiltError, applies no
\* layer and reads no auxiliary tensor.
C3_CallBeforeBuildRejected ==
    (op = "call" /\ IsUnbuilt(coca))
        => /\ result = "NotBuiltError"
           /\ out.trace = <<>>
           /\ out.reads = {}

\* C4: a build given a list of shapes whose length is not 2 fails with
\* ShapeCountError.
C4_ShapeCountChecked ==
    (op = "build" /\ Len(input_shape) # 2) => result = "ShapeCountError"

ValidPair(shapes) ==
    /\ Len(shapes) = 2
    /\ Len(shapes[1]) = 4
    /\ Len(shapes[2]) = 2
    /\ shapes[1][1] = shapes[2][1]

C7_ConfigRoundTrip ==
    (op = "from_config" /\ config = GetConfig(coca))
        => /\ result = "ok"
           /\ Len(restored) = 1
           /\ IsUnbuilt(restored[1])
           /\ GetConfig(restored[1]) = GetConfig(coca)
           /\ InitParams \subseteq DOMAIN GetConfig(coca)

C7_Witness ==
    /\ op = "from_config"
    /\ config = GetConfig(coca)
    /\ Len(restored) = 1
    /\ IsBuilt(coca)
    /\ restored[1].hp.encoder_width = 3
    /\ restored[1].hp.encoder_intermediate_dim = 4

C9_PoolersBuiltWithEncoderShape ==
    (op = "build" /\ result = "ok")
        => LET i == input_shape[1]
               p == coca.hp.img_patch_size
               encoded == <<i[1], coca.hp.encoder_width,
                            (i[2] \div p) * (i[3] \div p) + 1>>
           IN  /\ coca.comp["image_encoder"] = <<encoded>>
               /\ coca.comp["contrastive_attn_pooling"] = <<encoded>>
               /\ coca.comp["captioning_attn_pooling"] = <<encoded>>

\* C10: in a call on a built object the text embedder and the unimodal
\* decoder get a sequence of length sequence_length + 1 with a mask of that
\* length, and the multimodal decoder gets a tensor and a mask of one
\* sequence length, the text length it was built with.
C10_TextLengthsAgree ==
    (op = "call" /\ IsBuilt(coca))
        => /\ Index(out.text_tokens, 1) = Index(texts, 1) + 1
           /\ Index(out.mask, 1) = Index(out.text_tokens, 1)
           /\ Index(out.trimmed, 1) = Index(out.mask, 1)
           /\ Index(out.trimmed, 1) =
                 Index(coca.comp["multimodal_text_decoder"][2], 1)

====
